---- MODULE Spec2Model ----
(***************************************************************************)
(* Model of the stockanews serverless handler.                             *)
(*                                                                         *)
(*   src/unnamed/part_000 : handler with the 8 s AbortController timeout   *)
(*                          and transformNewsData                          *)
(*   src/stockanews.js    : handler without a timer, built on             *)
(*                          transformSvelteKitData                         *)
(*                                                                         *)
(* JavaScript values are records tagged by k.  Strings are sequences of    *)
(* one-character strings, so trim() and split('/').pop() are computed.     *)
(***************************************************************************)
EXTENDS Integers, Sequences, FiniteSets, TLC

VARIABLES
  impl,           \* which handler is deployed: "part_000" or "stockanews"
  nodeEnv,        \* process.env.NODE_ENV
  method,         \* req.method
  upstream,       \* what the upstream will do: [fetch, ok, json, body]
  pc,             \* the handler's position: start, awaitFetch, awaitText, awaitJson, done
  timer,          \* timeoutId: none, armed, cleared, fired
  deadline,       \* the clock value at which the armed timer fires
  clock,          \* wall clock, in seconds
  aborted,        \* controller.signal.aborted
  fetchSt,        \* the outbound call: none, pending (no response yet), headers
                  \* (body being read), complete, failed, aborted (while
                  \* pending), bodyAborted (while the body was read)
  rawData,        \* the parsed upstream payload
  normalizerRan,  \* whether the transform function was called
  responses,      \* the responses sent on res, in order
  resHeaders,     \* the headers set on res
  outs            \* the results of successive normalizer runs on rawData

vars == <<impl, nodeEnv, method, upstream, pc, timer, deadline, clock, aborted,
          fetchSt, rawData, normalizerRan, responses, resHeaders, outs>>

----------------------------------------------------------------------------
(* Bounds *)

\* the clock runs from 0 to MaxClock seconds
MaxClock == 10
\* longest article list given to the normalizer
MaxEntries == 2
\* number of normalizer runs on the same payload
MaxCalls == 2
\* latest clock value of a normalizer run
MaxNow == 2
\* longest article list in a payload the handler receives
MaxBatch == 1

(* Program constants *)

\* setTimeout(() => controller.abort(), 8000), in seconds
TIMEOUT_SECONDS == 8

----------------------------------------------------------------------------
(* JavaScript values *)

Undef == [k |-> "undef"]
JNull == [k |-> "null"]
NaN == [k |-> "nan"]
\* a finite double whose magnitude is beyond the Date range (such as 1e20)
Big == [k |-> "big"]
Num(n) == [k |-> "num", n |-> n]
Str(s) == [k |-> "str", s |-> s]
Arr(a) == [k |-> "arr", a |-> a]
Obj(f) == [k |-> "obj", f |-> f]
Bool(b) == [k |-> "bool", b |-> b]
\* the string Date.prototype.toISOString returns for time value ms
Iso(ms) == [k |-> "iso", ms |-> ms]
\* the string Number.prototype.toString returns for n
Dec(n) == [k |-> "dec", n |-> n]

Nullish(v) == v.k \in {"undef", "null"}

\* ToBoolean
Truthy(v) ==
  CASE v.k \in {"undef", "null", "nan"} -> FALSE
    [] v.k = "num" -> v.n # 0
    [] v.k = "str" -> v.s # <<>>
    [] v.k = "bool" -> v.b
    [] OTHER -> TRUE

\* v.name on a value that is not null or undefined
Get(v, name) ==
  IF v.k = "obj" /\ name \in DOMAIN v.f THEN v.f[name] ELSE Undef

\* v?.name
OptGet(v, name) == IF Nullish(v) THEN Undef ELSE Get(v, name)

\* v?.[1]
OptIndex1(v) ==
  CASE v.k = "arr" -> IF Len(v.a) >= 2 THEN v.a[2] ELSE Undef
    [] v.k = "str" -> IF Len(v.s) >= 2 THEN Str(<<v.s[2]>>) ELSE Undef
    [] v.k = "obj" -> Get(v, "1")
    [] OTHER -> Undef

\* v?.length
OptLength(v) ==
  CASE v.k = "arr" -> Num(Len(v.a))
    [] v.k = "str" -> Num(Len(v.s))
    [] v.k = "obj" -> Get(v, "length")
    [] OTHER -> Undef

IsWhite(c) == c = " "

RECURSIVE TrimStart(_)
TrimStart(s) ==
  IF s # <<>> /\ IsWhite(Head(s)) THEN TrimStart(Tail(s)) ELSE s

RECURSIVE TrimEnd(_)
TrimEnd(s) ==
  IF s # <<>> /\ IsWhite(s[Len(s)]) THEN TrimEnd(SubSeq(s, 1, Len(s) - 1)) ELSE s

\* String.prototype.trim
Trim(s) == TrimEnd(TrimStart(s))

\* s.split('/').pop(): what follows the last '/', the whole string without one
RECURSIVE LastSegment(_)
LastSegment(s) ==
  IF \E i \in 1..Len(s) : s[i] = "/"
  THEN LastSegment(Tail(s))
  ELSE s

DigitChars == {"0", "1", "2", "3", "4", "5", "6", "7", "8", "9"}

DigitVal(c) ==
  CASE c = "0" -> 0 [] c = "1" -> 1 [] c = "2" -> 2 [] c = "3" -> 3
    [] c = "4" -> 4 [] c = "5" -> 5 [] c = "6" -> 6 [] c = "7" -> 7
    [] c = "8" -> 8 [] c = "9" -> 9

RECURSIVE DecimalValue(_)
DecimalValue(s) ==
  IF s = <<>> THEN 0
  ELSE 10 * DecimalValue(SubSeq(s, 1, Len(s) - 1)) + DigitVal(s[Len(s)])

\* ToNumber, for the operands item.d takes here: numbers, booleans and strings
\* over digits, blanks and letters
ToNumber(v) ==
  CASE v.k \in {"num", "big", "nan"} -> v
    [] v.k = "null" -> Num(0)
    [] v.k = "bool" -> Num(IF v.b THEN 1 ELSE 0)
    [] v.k = "str" ->
         IF \A i \in 1..Len(Trim(v.s)) : Trim(v.s)[i] \in DigitChars
         THEN Num(DecimalValue(Trim(v.s)))
         ELSE NaN
    [] OTHER -> NaN

\* v * 1000
Times1000(v) ==
  LET x == ToNumber(v)
  IN IF x.k = "num" THEN Num(x.n * 1000) ELSE x

Throw(name, message) == [k |-> "throw", name |-> name, message |-> message]

IsThrow(r) == r.k = "throw"

\* new Date(ms).toISOString(): RangeError on an invalid time value
ToISOString(ms) ==
  IF ms.k = "num" THEN Iso(ms.n) ELSE Throw("RangeError", "Invalid time value")

ORIGIN == "https://stockanalysis.com"

\* Date.now() in milliseconds, from the clock in seconds
DateNow(c) == c * 1000

\* a || b
Or(a, b) == IF Truthy(a) THEN a ELSE b

\* JSON.stringify(v).substring(0, 200)
JsonText(v) == [k |-> "json", of |-> v]

\* a string literal of the source, kept as one token
Lit(text) == Str(<<text>>)

\* "name" in obj
HasField(v, name) == v.k = "obj" /\ name \in DOMAIN v.f

\* JSON.stringify of a response body: members whose value is undefined are omitted
Serialize(v) ==
  IF v.k = "obj"
  THEN Obj([x \in {y \in DOMAIN v.f : v.f[y] # Undef} |-> v.f[x]])
  ELSE v

\* `https://stockanalysis.com${v}`
Absolute(v) ==
  IF v.k = "str" THEN Str(<<ORIGIN>> \o v.s) ELSE [k |-> "concat", head |-> ORIGIN, tail |-> v]

----------------------------------------------------------------------------
(* transformNewsData, src/unnamed/part_000 *)

\* data?.nodes?.[1]?.data
ProbeArticles(data) ==
  OptGet(OptIndex1(OptGet(data, "nodes")), "data")

\* .filter(item => item && item.t && item.u)
KeepItem(item) ==
  Truthy(item) /\ Truthy(Get(item, "t")) /\ Truthy(Get(item, "u"))

ArticleId_AlwaysClock(u, now) == Dec(now)

\* item.u.split('/').pop() || Date.now().toString()
ArticleId(u, now) ==
  IF LastSegment(u) # <<>> THEN Str(LastSegment(u)) ELSE Dec(now)

\* the callback of .map: an Article, or the exception it throws
MapItem(item, now) ==
  LET t == Get(item, "t")
      u == Get(item, "u")
      s == Get(item, "s")
      d == Get(item, "d")
      sum == IF Truthy(s) THEN s ELSE Str(<<>>)
      pub == IF Truthy(d) THEN ToISOString(Times1000(d)) ELSE JNull
  IN IF u.k # "str" THEN Throw("TypeError", "item.u.split is not a function")
     ELSE IF t.k # "str" THEN Throw("TypeError", "item.t.trim is not a function")
     ELSE IF sum.k # "str" THEN Throw("TypeError", "(item.s || '').trim is not a function")
     ELSE IF IsThrow(pub) THEN pub
     ELSE Obj([id |-> ArticleId(u.s, now),
               title |-> Str(Trim(t.s)),
               summary |-> Str(Trim(sum.s)),
               url |-> Absolute(u),
               publishedAt |-> pub,
               source |-> Lit("StockAnalysis")])

\* the first exception of a mapped sequence
FirstThrow(mapped) ==
  mapped[CHOOSE i \in 1..Len(mapped) :
           IsThrow(mapped[i]) /\ \A j \in 1..(i - 1) : ~IsThrow(mapped[j])]

transformNewsData(data, now) ==
  LET articlesNode == ProbeArticles(data)
  IN IF articlesNode.k # "arr"
     THEN Obj([error |-> Lit("Unexpected data structure"),
               hasNodes |-> Bool(Truthy(OptGet(data, "nodes"))),
               nodeCount |-> OptLength(OptGet(data, "nodes"))])
     ELSE LET kept == SelectSeq(articlesNode.a, KeepItem)
              mapped == [i \in 1..Len(kept) |-> MapItem(kept[i], now)]
          IN IF \E i \in 1..Len(mapped) : IsThrow(mapped[i])
             THEN Obj([error |-> Lit(FirstThrow(mapped).message)])
             ELSE Obj([success |-> Bool(TRUE),
                       count |-> Num(Len(mapped)),
                       lastUpdated |-> Iso(now),
                       articles |-> Arr(mapped)])

----------------------------------------------------------------------------
(* transformSvelteKitData, src/stockanews.js *)

\* item?.url?.split('/').pop()
UrlSegment(url) ==
  IF Nullish(url) THEN Undef
  ELSE IF url.k = "str" THEN Str(LastSegment(url.s))
  ELSE Throw("TypeError", "item?.url?.split is not a function")

\* the callback of .map; rnd is Math.random().toString(36).slice(2)
MapSvelteItem(item, rnd) ==
  LET url == OptGet(item, "url")
      seg == UrlSegment(url)
      id == IF Truthy(OptGet(item, "id")) THEN OptGet(item, "id")
            ELSE IF IsThrow(seg) THEN seg
            ELSE Or(seg, rnd)
  IN IF IsThrow(id) THEN id
     ELSE Obj([id |-> id,
               title |-> Or(OptGet(item, "title"), Str(<<>>)),
               summary |-> Or(OptGet(item, "summary"),
                              Or(OptGet(item, "description"), Str(<<>>))),
               url |-> IF Truthy(url) THEN Absolute(url) ELSE Str(<<>>),
               source |-> Lit("StockAnalysis"),
               publishedAt |-> Or(OptGet(item, "date"), Or(OptGet(item, "time"), JNull)),
               imageUrl |-> IF Truthy(OptGet(item, "image"))
                            THEN Absolute(OptGet(item, "image")) ELSE JNull])

\* .filter(article => article.title && article.url)
KeepArticle(article) == Truthy(Get(article, "title")) /\ Truthy(Get(article, "url"))

\* data.nodes?.map(n => n?.type || 'unknown')
RawNodes(data) ==
  LET nodes == Get(data, "nodes")
  IN IF Nullish(data) THEN Throw("TypeError", "Cannot read properties of null")
     ELSE IF Nullish(nodes) THEN Undef
     ELSE IF nodes.k = "arr"
     THEN Arr([i \in 1..Len(nodes.a) |->
                 Or(OptGet(nodes.a[i], "type"), Lit("unknown"))])
     ELSE Throw("TypeError", "data.nodes?.map is not a function")

\* rnd[i] is the value Math.random() yields for the i-th item
transformSvelteKitData(data, now, rnd) ==
  LET newsNode == ProbeArticles(data)
      failed == Obj([error |-> Lit("Data parsing failed"), raw_sample |-> JsonText(data)])
  IN IF newsNode.k # "arr"
     THEN IF IsThrow(RawNodes(data)) THEN failed
          ELSE Obj([raw_nodes |-> RawNodes(data)])
     ELSE LET mapped == [i \in 1..Len(newsNode.a) |->
                           MapSvelteItem(newsNode.a[i], rnd[i])]
          IN IF \E i \in 1..Len(mapped) : IsThrow(mapped[i])
             THEN failed
             ELSE Obj([lastUpdated |-> Iso(now),
                       articles |-> Arr(SelectSeq(mapped, KeepArticle))])

----------------------------------------------------------------------------
(* Inputs *)

GoodFields ==
  [t |-> Str(<<"T">>), u |-> Str(<<"/", "n", "/", "a">>),
   s |-> Str(<<"S", " ">>), d |-> Num(2)]

\* marks a field the entry does not have
Absent == [k |-> "absent"]

\* GoodFields with field name set to v, or removed
WithField(name, v) ==
  IF v = Absent
  THEN Obj([x \in DOMAIN GoodFields \ {name} |-> GoodFields[x]])
  ELSE Obj([x \in DOMAIN GoodFields |-> IF x = name THEN v ELSE GoodFields[x]])

TVals == {Absent, Str(<<" ">>), Str(<<" ", "T", " ">>), Num(5)}
UVals == {Absent, Str(<<" ">>), Str(<<"/", "n", "/">>), Num(5)}
SVals == {Absent, Num(5)}
DVals == {Absent, Big, Str(<<"x">>), Str(<<"3">>)}

\* raw entries in the shape transformNewsData reads: { t, u, s, d }
RawEntries ==
  {JNull, Obj(GoodFields)}
    \cup {WithField("t", v) : v \in TVals}
    \cup {WithField("u", v) : v \in UVals}
    \cup {WithField("s", v) : v \in SVals}
    \cup {WithField("d", v) : v \in DVals}

\* raw entries in the shape transformSvelteKitData reads
SvelteEntries ==
  {Obj([title |-> Str(<<"T">>), url |-> Str(<<"/", "n", "/", "a">>)]),
   Obj([title |-> Str(<<"T">>), url |-> Str(<<"/", "n", "/">>)]),
   Obj([title |-> Str(<<"T">>), url |-> Num(5)]),
   Obj([id |-> Str(<<"i">>), url |-> Str(<<"/", "a">>), image |-> Str(<<"/", "p">>)])}

\* sequences over S of length at most n
SeqsUpTo(S, n) == UNION {[1..m -> S] : m \in 0..n}

\* a payload with the article list where both transforms look for it
WithArticles(list) ==
  Obj([nodes |-> Arr(<<Obj([type |-> Lit("data")]),
                       Obj([type |-> Lit("data"), data |-> Arr(list)])>>)])

\* payloads that parse as JSON and have no sequence at nodes[1].data
ShapelessPayloads ==
  {JNull, Num(5), Str(<<"a", "b">>), Arr(<<>>), Obj(<<>>),
   Obj([nodes |-> JNull]),
   Obj([nodes |-> Str(<<"a", "b">>)]),
   Obj([nodes |-> Obj(<<>>)]),
   Obj([nodes |-> Arr(<<>>)]),
   Obj([nodes |-> Arr(<<Obj(<<>>), JNull>>)]),
   Obj([nodes |-> Arr(<<Obj(<<>>), Obj([type |-> Lit("data")])>>)]),
   Obj([nodes |-> Arr(<<Obj(<<>>), Obj([data |-> Obj(<<>>)])>>)]),
   Obj([nodes |-> Arr(<<Obj(<<>>), Obj([data |-> Str(<<"a">>)])>>)])}

\* what response.json() can yield in a handler run
Payloads ==
  ShapelessPayloads
    \cup {WithArticles(l) : l \in SeqsUpTo(RawEntries \cup SvelteEntries, MaxBatch)}

\* what the normalizer runs are given
ArticlePayloads == {WithArticles(l) : l \in SeqsUpTo(RawEntries, MaxEntries)}

\* values of Math.random().toString(36).slice(2)
RandomIds == {Lit("r1"), Lit("r2")}

\* the upstream's behaviour during one request
Upstreams ==
  [fetch : {"reject", "stall"}, ok : {TRUE}, json : {TRUE}, body : {"ok"}]
    \cup [fetch : {"resolve"}, ok : BOOLEAN, json : BOOLEAN,
          body : {"ok", "fail", "stall"}]

Methods == {"GET", "OPTIONS", "POST"}

----------------------------------------------------------------------------
(* The response object *)

\* res.setHeader(name, value)
SetHeader(h, name, value) ==
  [x \in DOMAIN h \cup {name} |-> IF x = name THEN value ELSE h[x]]

\* res.status(status).json(body), or .end() with body Undef
Send(status, body) ==
  responses' = Append(responses, [status |-> status, body |-> Serialize(body)])

\* clearTimeout(timeoutId)
ClearTimeout(t) == IF t = "armed" THEN "cleared" ELSE t

----------------------------------------------------------------------------
(* handler, src/unnamed/part_000 *)

MethodBranch_NoPreflight(m) == IF m # "GET" THEN "reject" ELSE "fetch"

\* the two method checks, in the order the handler makes them
MethodBranch(m) ==
  IF m = "OPTIONS" THEN "preflight"
  ELSE IF m # "GET" THEN "reject"
  ELSE "fetch"

\* the four res.setHeader calls that open the handler
HandlerHeaders ==
  SetHeader(SetHeader(SetHeader(SetHeader(<<>>,
    "Access-Control-Allow-Origin", "*"),
    "Access-Control-Allow-Methods", "GET, OPTIONS"),
    "Access-Control-Allow-Headers", "Content-Type"),
    "Cache-Control", "s-maxage=300")

CatchTimer_NotCleared(t) == t

\* clearTimeout(timeoutId) at the head of the catch block
CatchTimer(t) == ClearTimeout(t)

\* clearTimeout(timeoutId) once fetch has resolved
ResolvedTimer(t) == ClearTimeout(t)

\* the catch block: error is the exception caught, t the timer's state then
Catch(error, t) ==
  /\ timer' = CatchTimer(t)
  /\ pc' = "done"
  /\ IF error.name = "AbortError"
     THEN Send(504, Obj([error |-> Lit("Upstream timeout")]))
     ELSE Send(500, Obj([error |-> Lit("Service unavailable"),
                         debug |-> IF nodeEnv = "development"
                                   THEN Lit(error.message) ELSE Undef]))

\* Object.keys(v) throws a TypeError on null and undefined
ObjectKeysThrows(v) == Nullish(v)

\* from the entry of the handler to its first await
HandlerStart ==
  /\ impl = "part_000"
  /\ pc = "start"
  /\ resHeaders' = HandlerHeaders
  /\ CASE MethodBranch(method) = "preflight" ->
            /\ Send(200, Undef)
            /\ pc' = "done"
            /\ UNCHANGED <<timer, deadline, fetchSt>>
       [] MethodBranch(method) = "reject" ->
            /\ Send(405, Obj([error |-> Lit("Only GET allowed")]))
            /\ pc' = "done"
            /\ UNCHANGED <<timer, deadline, fetchSt>>
       [] OTHER ->
            /\ timer' = "armed"
            /\ deadline' = clock + TIMEOUT_SECONDS
            /\ fetchSt' = "pending"
            /\ pc' = "awaitFetch"
            /\ UNCHANGED responses
  /\ UNCHANGED <<impl, nodeEnv, method, upstream, clock, aborted, rawData,
                 normalizerRan, outs>>

\* fetch resolves with the response's status and headers
HandlerFetchResolved ==
  /\ impl = "part_000"
  /\ pc = "awaitFetch"
  /\ fetchSt = "pending"
  /\ upstream.fetch = "resolve"
  /\ fetchSt' = "headers"
  /\ timer' = ResolvedTimer(timer)
  /\ pc' = IF ~upstream.ok \/ ~upstream.json THEN "awaitText" ELSE "awaitJson"
  /\ UNCHANGED <<impl, nodeEnv, method, upstream, deadline, clock, aborted,
                 rawData, normalizerRan, responses, resHeaders, outs>>

\* fetch rejects with a network error
HandlerFetchRejected ==
  /\ impl = "part_000"
  /\ pc = "awaitFetch"
  /\ fetchSt = "pending"
  /\ upstream.fetch = "reject"
  /\ fetchSt' = "failed"
  /\ Catch(Throw("TypeError", "fetch failed"), timer)
  /\ UNCHANGED <<impl, nodeEnv, method, upstream, deadline, clock, aborted,
                 rawData, normalizerRan, resHeaders, outs>>

\* response.text() resolves on a blocked response
HandlerTextDone ==
  /\ impl = "part_000"
  /\ pc = "awaitText"
  /\ fetchSt = "headers"
  /\ upstream.body = "ok"
  /\ fetchSt' = "complete"
  /\ Send(502, Obj([error |-> Lit("Source blocked request"),
                    hint |-> Lit("Check Vercel logs for Cloudflare/challenge details")]))
  /\ pc' = "done"
  /\ UNCHANGED <<impl, nodeEnv, method, upstream, timer, deadline, clock,
                 aborted, rawData, normalizerRan, resHeaders, outs>>

\* response.text() or response.json() rejects: the read fails or the body
\* is not JSON
HandlerBodyFailed ==
  /\ impl = "part_000"
  /\ pc \in {"awaitText", "awaitJson"}
  /\ fetchSt = "headers"
  /\ upstream.body = "fail"
  /\ fetchSt' = "failed"
  /\ Catch(Throw("TypeError", "terminated"), timer)
  /\ UNCHANGED <<impl, nodeEnv, method, upstream, deadline, clock, aborted,
                 rawData, normalizerRan, resHeaders, outs>>

\* response.json() resolves; the rest of the try block
HandlerJsonDone ==
  /\ impl = "part_000"
  /\ pc = "awaitJson"
  /\ fetchSt = "headers"
  /\ upstream.body = "ok"
  /\ \E p \in Payloads :
       LET cleaned == transformNewsData(p, DateNow(clock))
       IN /\ rawData' = p
          /\ IF Truthy(Get(cleaned, "error"))
             THEN IF ObjectKeysThrows(p)
                  THEN Catch(Throw("TypeError",
                                   "Cannot convert undefined or null to object"),
                             timer)
                  ELSE /\ Send(500, Obj([error |-> Lit("Data structure changed"),
                                         hint |-> Lit("Check transformation logic")]))
                       /\ pc' = "done"
                       /\ UNCHANGED timer
             ELSE /\ Send(200, cleaned)
                  /\ pc' = "done"
                  /\ UNCHANGED timer
  /\ fetchSt' = "complete"
  /\ normalizerRan' = TRUE
  /\ UNCHANGED <<impl, nodeEnv, method, upstream, deadline, clock, aborted,
                 resHeaders, outs>>

\* the setTimeout callback: controller.abort().  A fetch or body read that is
\* outstanding rejects with an AbortError, which the catch block receives.
TimerFires ==
  /\ timer = "armed"
  /\ clock >= deadline
  /\ aborted' = TRUE
  /\ IF pc \in {"awaitFetch", "awaitText", "awaitJson"}
     THEN /\ fetchSt' = IF fetchSt = "pending" THEN "aborted" ELSE "bodyAborted"
          /\ Catch(Throw("AbortError", "This operation was aborted"), "fired")
     ELSE /\ timer' = "fired"
          /\ UNCHANGED <<pc, fetchSt, responses>>
  /\ UNCHANGED <<impl, nodeEnv, method, upstream, deadline, clock, rawData,
                 normalizerRan, resHeaders, outs>>

----------------------------------------------------------------------------
(* handler, src/stockanews.js *)

\* the four res.setHeader calls that open the handler
SvelteHeaders ==
  SetHeader(SetHeader(SetHeader(SetHeader(<<>>,
    "Access-Control-Allow-Origin", "*"),
    "Access-Control-Allow-Methods", "GET, OPTIONS"),
    "Access-Control-Allow-Headers", "Content-Type"),
    "Cache-Control", "s-maxage=300, stale-while-revalidate=60")

\* the catch block
SvelteCatch ==
  /\ Send(500, Obj([error |-> Lit("Internal service error"),
                    message |-> Lit("News service temporarily unavailable")]))
  /\ pc' = "done"

\* from the entry of the handler to its first await.  No timer is created: the
\* timeout member of the options object is not an option fetch reads.
SvelteStart ==
  /\ impl = "stockanews"
  /\ pc = "start"
  /\ resHeaders' = SvelteHeaders
  /\ CASE method = "OPTIONS" ->
            /\ Send(200, Undef)
            /\ pc' = "done"
            /\ UNCHANGED fetchSt
       [] method # "GET" ->
            /\ Send(405, Obj([error |->
                   Lit("Method not allowed. Only GET requests permitted.")]))
            /\ pc' = "done"
            /\ UNCHANGED fetchSt
       [] OTHER ->
            /\ fetchSt' = "pending"
            /\ pc' = "awaitFetch"
            /\ UNCHANGED responses
  /\ UNCHANGED <<impl, nodeEnv, method, upstream, timer, deadline, clock,
                 aborted, rawData, normalizerRan, outs>>

\* fetch resolves; only response.ok is looked at
SvelteFetchResolved ==
  /\ impl = "stockanews"
  /\ pc = "awaitFetch"
  /\ fetchSt = "pending"
  /\ upstream.fetch = "resolve"
  /\ fetchSt' = "headers"
  /\ pc' = IF ~upstream.ok THEN "awaitText" ELSE "awaitJson"
  /\ UNCHANGED <<impl, nodeEnv, method, upstream, timer, deadline, clock,
                 aborted, rawData, normalizerRan, responses, resHeaders, outs>>

\* fetch rejects with a network error
SvelteFetchRejected ==
  /\ impl = "stockanews"
  /\ pc = "awaitFetch"
  /\ fetchSt = "pending"
  /\ upstream.fetch = "reject"
  /\ fetchSt' = "failed"
  /\ SvelteCatch
  /\ UNCHANGED <<impl, nodeEnv, method, upstream, timer, deadline, clock,
                 aborted, rawData, normalizerRan, resHeaders, outs>>

\* response.text() resolves on a response that is not ok
SvelteTextDone ==
  /\ impl = "stockanews"
  /\ pc = "awaitText"
  /\ fetchSt = "headers"
  /\ upstream.body = "ok"
  /\ fetchSt' = "complete"
  /\ Send(502, Obj([error |-> Lit("Upstream service unavailable"),
                    message |-> Lit("Failed to retrieve news data. Please try again later.")]))
  /\ pc' = "done"
  /\ UNCHANGED <<impl, nodeEnv, method, upstream, timer, deadline, clock,
                 aborted, rawData, normalizerRan, resHeaders, outs>>

\* response.text() or response.json() rejects: the read fails, or a body that
\* is not JSON reaches response.json()
SvelteBodyFailed ==
  /\ impl = "stockanews"
  /\ pc \in {"awaitText", "awaitJson"}
  /\ fetchSt = "headers"
  /\ \/ upstream.body = "fail"
     \/ pc = "awaitJson" /\ upstream.body = "ok" /\ ~upstream.json
  /\ fetchSt' = "failed"
  /\ SvelteCatch
  /\ UNCHANGED <<impl, nodeEnv, method, upstream, timer, deadline, clock,
                 aborted, rawData, normalizerRan, resHeaders, outs>>

\* response.json() resolves; the rest of the try block
SvelteJsonDone ==
  /\ impl = "stockanews"
  /\ pc = "awaitJson"
  /\ fetchSt = "headers"
  /\ upstream.body = "ok"
  /\ upstream.json
  /\ \E p \in Payloads, rnd \in [1..MaxBatch -> RandomIds] :
       /\ rawData' = p
       /\ Send(200, transformSvelteKitData(p, DateNow(clock), rnd))
  /\ fetchSt' = "complete"
  /\ normalizerRan' = TRUE
  /\ resHeaders' = SetHeader(resHeaders, "Content-Type",
                             "application/json; charset=utf-8")
  /\ pc' = "done"
  /\ UNCHANGED <<impl, nodeEnv, method, upstream, timer, deadline, clock,
                 aborted, outs>>

----------------------------------------------------------------------------
(* Time *)

\* an event the handler is waiting for is still to come from the upstream
UpstreamWillAct ==
  \/ pc = "awaitFetch" /\ upstream.fetch # "stall"
  \/ pc \in {"awaitText", "awaitJson"} /\ upstream.body # "stall"

\* one second passes.  An armed timer fires at its deadline before the clock moves
\* on.  The clock is followed while a timer is armed or an upstream event is still
\* to come; once neither is, no step of the handler reads it again.
Tick ==
  /\ clock < MaxClock
  /\ timer = "armed" \/ UpstreamWillAct
  /\ ~(timer = "armed" /\ clock >= deadline)
  /\ clock' = clock + 1
  /\ UNCHANGED <<impl, nodeEnv, method, upstream, pc, timer, deadline, aborted,
                 fetchSt, rawData, normalizerRan, responses, resHeaders, outs>>

----------------------------------------------------------------------------
(* One request through either handler *)

Init ==
  /\ impl \in {"part_000", "stockanews"}
  /\ nodeEnv \in {"production", "development"}
  /\ method \in Methods
  /\ upstream \in Upstreams
  /\ pc = "start"
  /\ timer = "none"
  /\ deadline = 0
  /\ clock = 0
  /\ aborted = FALSE
  /\ fetchSt = "none"
  /\ rawData = Undef
  /\ normalizerRan = FALSE
  /\ responses = <<>>
  /\ resHeaders = <<>>
  /\ outs = <<>>

Next ==
  \/ HandlerStart
  \/ HandlerFetchResolved
  \/ HandlerFetchRejected
  \/ HandlerTextDone
  \/ HandlerBodyFailed
  \/ HandlerJsonDone
  \/ TimerFires
  \/ SvelteStart
  \/ SvelteFetchResolved
  \/ SvelteFetchRejected
  \/ SvelteTextDone
  \/ SvelteBodyFailed
  \/ SvelteJsonDone
  \/ Tick

Spec == Init /\ [][Next]_vars

\* the event loop runs every callback that is ready, and time passes
FairSpec == Spec /\ WF_vars(Next)

----------------------------------------------------------------------------
(* Repeated runs of transformNewsData on one payload *)

\* transformNewsData(rawData) at the current time
Normalize ==
  /\ Len(outs) < MaxCalls
  /\ outs' = Append(outs, [at |-> DateNow(clock),
                           result |-> transformNewsData(rawData, DateNow(clock))])
  /\ UNCHANGED <<impl, nodeEnv, method, upstream, pc, timer, deadline, clock,
                 aborted, fetchSt, rawData, normalizerRan, responses, resHeaders>>

\* time passes between two runs
Later ==
  /\ clock < MaxNow
  /\ clock' = clock + 1
  /\ UNCHANGED <<impl, nodeEnv, method, upstream, pc, timer, deadline, aborted,
                 fetchSt, rawData, normalizerRan, responses, resHeaders, outs>>

InitT ==
  /\ impl = "part_000"
  /\ nodeEnv = "production"
  /\ method = "GET"
  /\ upstream = [fetch |-> "resolve", ok |-> TRUE, json |-> TRUE, body |-> "ok"]
  /\ pc = "normalizer"
  /\ timer = "none"
  /\ deadline = 0
  /\ clock = 0
  /\ aborted = FALSE
  /\ fetchSt = "none"
  /\ rawData \in ArticlePayloads
  /\ normalizerRan = FALSE
  /\ responses = <<>>
  /\ resHeaders = <<>>
  /\ outs = <<>>

NextT == Normalize \/ Later

SpecT == InitT /\ [][NextT]_vars

----------------------------------------------------------------------------
(* Properties of one request *)

Responded == Len(responses) >= 1

Status == responses[1].status

Body == responses[1].body

InFlight == fetchSt \in {"pending", "headers"}

\* C1: every request through the part_000 handler is eventually answered, and
\* no request is ever answered twice.
C1_ExactlyOneResponse ==
  /\ <>(impl = "part_000" => Len(responses) = 1)
  /\ [](Len(responses) <= 1)

\* C2: for a GET, once more than TIMEOUT_SECONDS have passed since the fetch was
\* issued, the upstream call is no longer outstanding: it completed in time or
\* was aborted, and an aborted call is answered 504 "Upstream timeout".
C2_AbortedAtDeadline ==
  (impl = "part_000" /\ method = "GET" /\ pc # "start" /\ clock > deadline)
    => /\ ~InFlight
       /\ fetchSt \in {"aborted", "bodyAborted"}
            => /\ aborted
               /\ Responded
               /\ Status = 504
               /\ Body = Obj([error |-> Lit("Upstream timeout")])

\* C5: a GET whose parsed payload has no sequence at nodes[1].data is answered
\* 500 with error "Data structure changed".
C5_StructureChanged ==
  (impl = "part_000" /\ method = "GET" /\ pc = "done" /\ normalizerRan
     /\ ProbeArticles(rawData).k # "arr")
    => /\ Status = 500
       /\ Get(Body, "error") = Lit("Data structure changed")

\* the upstream's response arrived and is not ok or not JSON
BlockedResponse ==
  /\ upstream.fetch = "resolve"
  /\ fetchSt \in {"headers", "complete", "failed", "bodyAborted"}
  /\ ~upstream.ok \/ ~upstream.json

\* C6: a GET whose upstream response is not 2xx or not JSON is answered 502
\* with an error field and no articles field, and the normalizer is not run.
C6_Blocked502 ==
  (impl = "part_000" /\ method = "GET" /\ BlockedResponse)
    => /\ ~normalizerRan
       /\ Responded => /\ Status = 502
                       /\ HasField(Body, "error")
                       /\ ~HasField(Body, "articles")

\* C7: in every response to a GET, through either handler, a status of 200
\* comes with an articles sequence and no error field, and a body with an
\* error field or without an articles sequence comes with another status.
C7_EnvelopeAgreesWithStatus ==
  (method = "GET" /\ Responded)
    => LET success == Get(Body, "articles").k = "arr" /\ ~HasField(Body, "error")
       IN Status = 200 => success

\* the CORS headers are set as the handler sets them
CorsHeadersSet ==
  /\ {"Access-Control-Allow-Origin", "Access-Control-Allow-Methods",
      "Access-Control-Allow-Headers"} \subseteq DOMAIN resHeaders
  /\ resHeaders["Access-Control-Allow-Origin"] = "*"
  /\ resHeaders["Access-Control-Allow-Methods"] = "GET, OPTIONS"
  /\ resHeaders["Access-Control-Allow-Headers"] = "Content-Type"

\* C9: an OPTIONS request, whatever the upstream would do, is answered 200
\* with an empty body and the CORS headers, and neither the abort timer nor
\* the outbound fetch is ever created for it.
C9_OptionsPreflight ==
  method = "OPTIONS"
    => /\ timer = "none"
       /\ fetchSt = "none"
       /\ ~aborted
       /\ pc \in {"start", "done"}
       /\ pc = "done" => /\ responses = <<[status |-> 200, body |-> Undef]>>
                         /\ CorsHeadersSet

C9_Witness ==
  /\ impl = "part_000"
  /\ method = "OPTIONS"
  /\ upstream.fetch = "stall"
  /\ pc = "done"
  /\ Responded

\* C10: once a response has been sent the abort timer is not armed and no
\* outbound call is in flight, and a 504 is sent only when the timer fired
\* while the fetch was pending.
C10_NoBackgroundWork ==
  Responded
    => /\ timer # "armed"
       /\ ~InFlight
       /\ Status = 504 => timer = "fired" /\ aborted /\ fetchSt = "aborted"

C10_Witness ==
  /\ impl = "part_000"
  /\ Responded
  /\ Status = 504
  /\ timer = "fired"
  /\ clock = TIMEOUT_SECONDS

----------------------------------------------------------------------------
(* Properties of transformNewsData *)

\* the raw entries of the payload the normalizer runs are given
Entries == ProbeArticles(rawData).a

\* the field is a string that is not empty once trimmed
NonEmptyTrimmed(item, name) ==
  /\ item.k = "obj"
  /\ Get(item, name).k = "str"
  /\ Trim(Get(item, name).s) # <<>>

\* the entry has a title and a URL path, both non-empty once trimmed
WellTitled(item) == NonEmptyTrimmed(item, "t") /\ NonEmptyTrimmed(item, "u")

\* every field of the entry has the type the normalizer expects of it
WellTyped(item) ==
  \/ item = JNull
  \/ /\ item.k = "obj"
     /\ \A name \in {"t", "u", "s"} : Get(item, name).k \in {"undef", "str"}
     /\ Get(item, "d").k \in {"undef", "num"}

WellFormed == \A i \in 1..Len(Entries) : WellTyped(Entries[i])

\* the number of entries that have both
M == Cardinality({i \in 1..Len(Entries) : WellTitled(Entries[i])})

\* C3: of the N raw entries of a well-formed payload, of which M have a title
\* and a URL path that are non-empty after trimming, the normalizer returns M
\* articles and count M.
C3_CountMatchesTrimmed ==
  WellFormed =>
    \A i \in 1..Len(outs) :
      LET r == outs[i].result
      IN /\ Get(r, "articles").k = "arr"
         /\ Len(Get(r, "articles").a) = M
         /\ Get(r, "count") = Num(M)

\* C4: no entry, however malformed, makes the normalizer return a structural
\* failure for a payload that has an article list, and every entry with a
\* title and a URL path is emitted whatever the other entries hold.
C4_PerEntryIsolation ==
  \A i \in 1..Len(outs) :
    LET r == outs[i].result
    IN /\ ~HasField(r, "error")
       /\ Get(r, "articles").k = "arr"
       /\ Len(Get(r, "articles").a) >= M

\* the articles of the i-th run, <<>> when it failed
ArticlesOf(i) ==
  IF Get(outs[i].result, "articles").k = "arr"
  THEN Get(outs[i].result, "articles").a
  ELSE <<>>

\* the entries that pass the filter, in order
Kept == SelectSeq(Entries, KeepItem)

\* the fields of an article other than id
SameButId(a, b) ==
  \A name \in {"title", "summary", "url", "publishedAt", "source"} :
    Get(a, name) = Get(b, name)

\* C8 as claimed: two runs on the same payload return identical articles
\* sequences, id included.
C8_IdenticalArticles ==
  \A i, j \in 1..Len(outs) : ArticlesOf(i) = ArticlesOf(j)

\* C8: two runs on the same payload both fail with the same error or return
\* articles sequences of the same length and order that agree on every field
\* but id; the ids agree as well for every entry whose URL path has a
\* non-empty last segment, and whenever the two runs read the same clock.
C8_IdenticalUpToClockIds ==
  \A i, j \in 1..Len(outs) :
    /\ HasField(outs[i].result, "error") <=> HasField(outs[j].result, "error")
    /\ HasField(outs[i].result, "error") => outs[i].result = outs[j].result
    /\ Len(ArticlesOf(i)) = Len(ArticlesOf(j))
    /\ \A n \in 1..Len(ArticlesOf(i)) :
         /\ SameButId(ArticlesOf(i)[n], ArticlesOf(j)[n])
         /\ (LastSegment(Get(Kept[n], "u").s) # <<>> \/ outs[i].at = outs[j].at)
              => Get(ArticlesOf(i)[n], "id") = Get(ArticlesOf(j)[n], "id")

C8_Witness ==
  /\ Len(outs) >= 2
  /\ outs[1].at # outs[2].at
  /\ Len(ArticlesOf(1)) = 2
  /\ Get(ArticlesOf(1)[1], "id").k = "str"
  /\ Get(ArticlesOf(1)[2], "id").k = "dec"
  /\ Get(ArticlesOf(1)[2], "id") # Get(ArticlesOf(2)[2], "id")

====
